---- MODULE Spec2Model ----
(***************************************************************************)
(* A model of macq's entity classes (src/core.py: Predicate, Effect,       *)
(* Action) and of the ARMS extraction pass (src/macq/extract/arms.py).      *)
(*                                                                         *)
(* Strings that the code builds by joining words with a space are          *)
(* sequences of words here, so a join is a concatenation of sequences.     *)
(***************************************************************************)
EXTENDS Integers, Sequences, FiniteSets, TLC

VARIABLES
    \* ---- src/core.py: one Action object and the calls made on it
    obj_params,     \* Action.obj_params
    precond,        \* Action.precond, a list of Predicates
    effects,        \* Action.effects, a list of Effects
    call,           \* the last call made and how it ended
    made,           \* the outcome of the last direct Effect(...) construction
    \* ---- src/macq/extract/arms.py: one invocation ARMS(obs_lists)
    pc,             \* the position inside ARMS.__new__ / _arms / _step2
    obs_type,       \* obs_lists.type
    corpus,         \* obs_lists: a list of traces, each a list of steps
    layout,         \* how this run's hashing orders a set of two type names
    log,            \* the functions entered so far, in order
    fluents,        \* the result of _get_fluents
    connected_actions, \* the result of _step1
    relations,      \* _step2's dict fluent -> Relation
    action_constraints, \* the result of _step2A
    info_constraints,   \* the first result of _step2I
    support_counts,     \* the second result of _step2I
    result          \* what ARMS(obs_lists) gives back: a Model or an exception

varsCore == <<obj_params, precond, effects, call, made>>
varsArms == <<pc, obs_type, corpus, layout, log, fluents, connected_actions,
              relations, action_constraints, info_constraints,
              support_counts, result>>
vars == <<varsCore, varsArms>>

(***************************************************************************)
(* Bounds of the model.                                                    *)
(***************************************************************************)
MaxAttached == 2    \* preconditions and effects attached to the Action
MaxSteps == 4       \* steps in a corpus, over all its traces
MaxFluents == 3     \* fluents observed in a corpus over two object types
MaxActs == 2        \* steps of a corpus over two object types

None == [kind |-> "none"]

(***************************************************************************)
(* src/core.py                                                             *)
(***************************************************************************)

\* Values a caller may pass as a probability. A float is held as twice its
\* value (3.5 is [kind |-> "float", twice |-> 7]): halves are enough to tell
\* an integral from a non-integral number.
IntV(n) == [kind |-> "int", n |-> n]
FloatV(t) == [kind |-> "float", twice |-> t]
StrV(numeric) == [kind |-> "str", numeric |-> numeric]

ProbInputs ==
    {IntV(-1), IntV(0), IntV(50), IntV(100), IntV(101),
     FloatV(7), FloatV(-1), FloatV(201),
     StrV(TRUE), StrV(FALSE), None}

\* Python's int(prob): the exception it raises, or "none".
IntConversion(prob) ==
    CASE prob.kind = "int" -> "none"
      [] prob.kind = "float" -> "none"
      [] prob.kind = "str" -> IF prob.numeric THEN "none" ELSE "ValueError"
      [] OTHER -> "TypeError"

\* prob < bound and prob > bound for the numbers; a str against an int is a
\* TypeError, decided by the caller.
LessThan(prob, bound) ==
    IF prob.kind = "int" THEN prob.n < bound ELSE prob.twice < 2 * bound

GreaterThan(prob, bound) ==
    IF prob.kind = "int" THEN prob.n > bound ELSE prob.twice > 2 * bound

\* Effect.set_prob: [raised, value].
set_prob(prob) ==
    LET conv == IntConversion(prob) IN
    IF conv = "ValueError" THEN [raised |-> "ValueError", value |-> None]
    ELSE IF conv = "TypeError" THEN [raised |-> "TypeError", value |-> None]
    ELSE IF prob.kind = "str" THEN [raised |-> "TypeError", value |-> None]
    ELSE IF LessThan(prob, 0) THEN [raised |-> "none", value |-> IntV(0)]
    ELSE IF GreaterThan(prob, 100) THEN [raised |-> "none", value |-> IntV(100)]
    ELSE [raised |-> "none", value |-> prob]

\* Predicate.__init__
Predicate(name, objects) == [name |-> name, objects |-> objects]

\* Effect.__init__: [raised, effect].
Effect(name, objects, func, probability) ==
    LET p == set_prob(probability) IN
    [raised |-> p.raised,
     effect |-> IF p.raised = "none"
                THEN [name |-> name, objects |-> objects, func |-> func,
                      probability |-> p.value]
                ELSE None]

ObjLists == {<<>>, <<"a">>, <<"b">>, <<"a", "b">>, <<"b", "a">>}
ParamLists == {<<"a">>, <<"a", "b">>}

Range(s) == {s[i] : i \in DOMAIN s}

\* A variant of the loop that looks at the first object only.
ObjectOutsideFirstOnly(objects, params) ==
    objects # <<>> /\ objects[1] \notin Range(params)

\* The loop of add_effect and add_precond: some obj is not in obj_params.
ObjectOutside(objects, params) ==
    \E i \in DOMAIN objects : objects[i] \notin Range(params)

\* The probability add_effect hands to Effect(...).
AddEffectProbability(probability) == IntV(100)

Attached == Len(precond) + Len(effects)

NoCall == [op |-> "none", objects |-> <<>>, probability |-> None,
           raised |-> "none"]

\* Action.add_precond(name, objects)
add_precond(name, objects) ==
    /\ IF ObjectOutside(objects, obj_params)
       THEN /\ call' = [op |-> "add_precond", objects |-> objects,
                        probability |-> None, raised |-> "Exception"]
            /\ UNCHANGED <<precond, effects>>
       ELSE /\ Attached < MaxAttached
            /\ precond' = Append(precond, Predicate(name, objects))
            /\ call' = [op |-> "add_precond", objects |-> objects,
                        probability |-> None, raised |-> "none"]
            /\ UNCHANGED effects
    /\ UNCHANGED <<obj_params, made, varsArms>>

\* Action.add_effect(name, objects, func, probability)
add_effect(name, objects, func, probability) ==
    /\ IF ObjectOutside(objects, obj_params)
       THEN /\ call' = [op |-> "add_effect", objects |-> objects,
                        probability |-> probability, raised |-> "Exception"]
            /\ UNCHANGED <<precond, effects>>
       ELSE LET e == Effect(name, objects, func,
                            AddEffectProbability(probability)) IN
            /\ Attached < MaxAttached
            /\ effects' = IF e.raised = "none"
                          THEN Append(effects, e.effect) ELSE effects
            /\ call' = [op |-> "add_effect", objects |-> objects,
                        probability |-> probability, raised |-> e.raised]
            /\ UNCHANGED precond
    /\ UNCHANGED <<obj_params, made, varsArms>>

\* Effect(name, objects, func, probability), constructed directly.
NewEffect(name, objects, func, probability) ==
    /\ made' = [given |-> probability]
               @@ Effect(name, objects, func, probability)
    /\ UNCHANGED <<obj_params, precond, effects, call, varsArms>>

(***************************************************************************)
(* The corpus: macq.trace values, as src/macq/extract/arms.py reads them.  *)
(***************************************************************************)

PartialObservation == "PartialObservation"
ObservationTypes == {PartialObservation, "IdentityObservation"}

PlanningObject(obj_type, name) == [obj_type |-> obj_type, name |-> name]
objA == PlanningObject("block", "a")
objT == PlanningObject("table", "t")

\* Grounded actions and fluents: a name and a list of objects.
GroundAction(name, params) == [name |-> name, obj_params |-> params]
Fluent(name, objects) == [name |-> name, objects |-> objects]

PickUp == GroundAction("pick-up", <<objA>>)
PutDown == GroundAction("put-down", <<objA>>)
Move == GroundAction("move", <<objA, objT>>)
Wait == GroundAction("wait", <<>>)

Holding == Fluent("holding", <<objA>>)
Clear == Fluent("clear", <<objA>>)
AtBlockTable == Fluent("at", <<objA, objT>>)
AtTableBlock == Fluent("at", <<objT, objA>>)
HandEmpty == Fluent("handempty", <<>>)

\* obs.state: None, or a dict whose items are <<fluent, value>> in the
\* dict's order.
Unobserved == [observed |-> FALSE, items |-> <<>>]
Observed(items) == [observed |-> TRUE, items |-> items]
Observation(action, state) == [action |-> action, state |-> state]

\* Corpora over one object type: every list of traces with at most MaxSteps
\* steps in all.
NarrowSteps ==
    {Observation(a, s) :
        a \in {PickUp, PutDown},
        s \in {Unobserved, Observed(<<<<Holding, TRUE>>, <<Clear, FALSE>>>>)}}

TracesOfLen(k) == [1..k -> NarrowSteps]

RECURSIVE CorporaUpTo(_)
CorporaUpTo(n) ==
    {<<>>} \cup
    UNION {{<<t>> \o c : t \in TracesOfLen(k), c \in CorporaUpTo(n - k)} :
              k \in 1..n}

NarrowCorpora == CorporaUpTo(MaxSteps)

\* Corpora over two object types: one trace, one step per action, the first
\* step observing a set of fluents true.
WideActions == {PickUp, PutDown, Move, Wait}
WideFluents == <<Holding, AtBlockTable, AtTableBlock, HandEmpty>>

RECURSIVE ItemsOf(_, _)
ItemsOf(chosen, i) ==
    IF i > Len(WideFluents) THEN <<>>
    ELSE (IF i \in chosen THEN <<<<WideFluents[i], TRUE>>>> ELSE <<>>)
         \o ItemsOf(chosen, i + 1)

WideStates ==
    {Observed(ItemsOf(chosen, 1)) :
        chosen \in {c \in SUBSET DOMAIN WideFluents :
                       Cardinality(c) <= MaxFluents}}

WideCorpora ==
    {<<[i \in DOMAIN acts |->
            Observation(acts[i], IF i = 1 THEN s ELSE Unobserved)]>> :
        acts \in UNION {[1..n -> WideActions] : n \in 1..MaxActs},
        s \in WideStates}

Corpora == NarrowCorpora \cup WideCorpora

\* The object types a corpus mentions.
TypesOfCorpus(c) ==
    UNION {UNION {
        {c[t][i].action.obj_params[j].obj_type :
            j \in DOMAIN c[t][i].action.obj_params}
        \cup UNION {{c[t][i].state.items[k][1].objects[j].obj_type :
                        j \in DOMAIN c[t][i].state.items[k][1].objects} :
                    k \in DOMAIN c[t][i].state.items} :
        i \in DOMAIN c[t]} : t \in DOMAIN c}

(***************************************************************************)
(* Python sets of type names.  A set of two names is iterated in an order  *)
(* that the names' hashes decide: when they fall in different slots of the *)
(* table the order is the slots' order, whatever the insertion order; when *)
(* they collide the second name inserted is probed to another slot, after  *)
(* or (wrapping around) before the first.  String hashes are seeded per    *)
(* run, so a run has one of the four layouts.                              *)
(***************************************************************************)
Layouts == {"block-table", "table-block", "inserted", "reversed"}

\* The distinct elements of a list, in the order of their first occurrence.
RECURSIVE Distinct(_)
Distinct(s) ==
    IF s = <<>> THEN <<>>
    ELSE LET front == Distinct(SubSeq(s, 1, Len(s) - 1)) IN
         IF s[Len(s)] \in Range(front) THEN front
         ELSE Append(front, s[Len(s)])

Reverse(s) == [i \in DOMAIN s |-> s[Len(s) + 1 - i]]

\* list(set(inserted)): the iteration order of the set built from a list.
SetIter(inserted) ==
    LET d == Distinct(inserted) IN
    IF Len(d) < 2 THEN d
    ELSE CASE layout = "block-table" -> <<"block", "table">>
           [] layout = "table-block" -> <<"table", "block">>
           [] layout = "inserted" -> d
           [] OTHER -> Reverse(d)

(***************************************************************************)
(* src/macq/extract/arms.py                                                *)
(***************************************************************************)

\* Relation(name, types): the dataclass's two fields; iter is list(types),
\* the order in which this object's set is iterated.
Relation(name, inserted) ==
    [name |-> name, types |-> Range(inserted), iter |-> SetIter(inserted)]

\* Relation.var()
var(r) == <<r.name>> \o r.iter

\* Relation.__hash__: the hash of a string is modelled by the string.
RelationHash(r) == var(r)

\* Relation.__eq__, generated by @dataclass from the fields name and types.
RelationEq(r1, r2) == r1.name = r2.name /\ r1.types = r2.types

\* LearnedAction(name, types) and its details(): the name and the parameter
\* types in one fixed order per set of types.
LearnedAction(name, types) == [name |-> name, obj_params |-> types]

Perms(S) == {s \in [1..Cardinality(S) -> S] : Range(s) = S}

details(a) == <<a.name>> \o (CHOOSE s \in Perms(a.obj_params) : TRUE)

\* Action.details() of a grounded action: its name and its objects.
ActionDetails(a) ==
    <<a.name>> \o [i \in DOMAIN a.obj_params |-> a.obj_params[i].name]

\* ObservationLists.get_fluents() and get_actions()
get_fluents(c) ==
    UNION {UNION {{c[t][i].state.items[k][1] : k \in DOMAIN c[t][i].state.items} :
                     i \in DOMAIN c[t]} : t \in DOMAIN c}

get_actions(c) ==
    UNION {{c[t][i].action : i \in DOMAIN c[t]} : t \in DOMAIN c}

\* A variant of the type check that lets every observation type through.
CompatibleAlways(type) == TRUE

\* ARMS.__new__, line 34
Compatible(type) == type = PartialObservation

\* d[k] = v on a dict
Put(d, k, v) == [x \in DOMAIN d \cup {k} |-> IF x = k THEN v ELSE d[x]]

EmptyDict == [x \in {} |-> x]

\* _step1, lines 69-78: one LearnedAction per grounded action.
LearnedActionsOf(obs_actions) ==
    [i \in DOMAIN obs_actions |->
        LearnedAction(obs_actions[i].name,
                      {obs_actions[i].obj_params[j].obj_type :
                          j \in DOMAIN obs_actions[i].obj_params})]

\* _step1, line 83: the actions a1 is compared with.
Partners(actions, i) == {actions[j] : j \in i..Len(actions)}

\* _step1, lines 80-88
RECURSIVE Step1Loop(_, _, _)
Step1Loop(actions, i, connected) ==
    IF i > Len(actions) THEN connected
    ELSE LET a1 == actions[i]
             row == [a2 \in {a \in Partners(actions, i) :
                                a1.obj_params \cap a.obj_params # {}} |->
                        a1.obj_params \cap a2.obj_params]
         IN Step1Loop(actions, i + 1, Put(connected, a1, row))

_step1(obs_actions) == Step1Loop(LearnedActionsOf(obs_actions), 1, EmptyDict)

\* _step2, lines 100-111
RelationsOf(fs) ==
    [f \in fs |->
        Relation(f.name, [j \in DOMAIN f.objects |-> f.objects[j].obj_type])]

\* Propositional variables and the formulas built from them.
VarName(r, role, detail) == var(r) \o <<role>> \o detail

\* nnf's Var(name), Var.negate(), Or(children) and And(children)
Var(name) == [name |-> name, true |-> TRUE]
Negate(v) == [v EXCEPT !.true = ~ @]
Or(args) == [op |-> "or", args |-> args]
And(args) == [op |-> "and", args |-> args]

\* _step2A, lines 142-143
implication(a, b) == Or(<<Negate(Var(a)), Var(b)>>)

\* A variant of the test: the relation and the action share a type.
RelevantIfSharing(relation, action) ==
    relation.types \cap action.obj_params # {}

\* _step2A, line 150
Relevant(relation, action) == relation.types \subseteq action.obj_params

\* _step2A, lines 157-177: the constraints appended for one pair.
PairConstraints(relation, action) ==
    <<implication(VarName(relation, "_in_add_", details(action)),
                  VarName(relation, "_notin_pre_", details(action))),
      implication(VarName(relation, "_in_pre_", details(action)),
                  VarName(relation, "_notin_add_", details(action))),
      implication(VarName(relation, "_in_del_", details(action)),
                  VarName(relation, "_in_pre_", details(action)))>>

\* _step2A: the list it returns, as a bag (constraint -> occurrences): both
\* loops run over sets, whose order is not the program's to choose.
_step2A(connected, rels) ==
    LET pairs == {p \in (DOMAIN connected) \X rels : Relevant(p[2], p[1])}
        appended == UNION {LET cs == PairConstraints(p[2], p[1]) IN
                              {<<p, k, cs[k]>> : k \in DOMAIN cs} :
                           p \in pairs}
    IN [c \in {e[3] : e \in appended} |->
          Cardinality({e \in appended : e[3] = c})]

\* s[k] with Python's indexing: from 0, a negative k counting from the end.
PyIndex(s, k) == IF k < 0 THEN s[Len(s) + k + 1] ELSE s[k + 1]

\* _step2I, lines 193-200: one variable per step of obs_list[:i].
I1(obs_list, i, relation) ==
    [q \in 1..i |->
        Var(VarName(relation, "_in_add_", ActionDetails(obs_list[q].action)))]

\* _step2I, lines 204-206
I2(obs_list, i, relation) ==
    Var(VarName(relation, "_notin_del_",
                ActionDetails(PyIndex(obs_list, i - 1).action)))

\* _step2I, lines 212-217: the key whose count is incremented.
SupportKey(obs_list, i, relation) ==
    IF i < Len(obs_list) - 1
    THEN <<relation, PyIndex(obs_list, i).action, "pre">>
    ELSE <<relation, PyIndex(obs_list, i - 1).action, "add">>

\* support_counts[key] += 1 on a defaultdict(int)
Increment(counts, key) ==
    Put(counts, key, (IF key \in DOMAIN counts THEN counts[key] ELSE 0) + 1)

\* _step2I, lines 188-217: the items of one observed state, from item k on.
\* i is the step's index as enumerate gives it, from 0.
RECURSIVE ItemsLoop(_, _, _, _, _)
ItemsLoop(rels, obs_list, i, k, acc) ==
    LET items == PyIndex(obs_list, i).state.items IN
    IF k > Len(items) THEN acc
    ELSE LET fluent == items[k][1]
             val == items[k][2]
         IN ItemsLoop(rels, obs_list, i, k + 1,
               IF val
               THEN [constraints |->
                        Append(acc.constraints,
                               And(<<Or(I1(obs_list, i, rels[fluent])),
                                     I2(obs_list, i, rels[fluent])>>)),
                     counts |->
                        Increment(acc.counts,
                                  SupportKey(obs_list, i, rels[fluent]))]
               ELSE acc)

\* _step2I, lines 186-187: the steps of one trace, from step i on.
RECURSIVE StepsLoop(_, _, _, _)
StepsLoop(rels, obs_list, i, acc) ==
    IF i >= Len(obs_list) THEN acc
    ELSE StepsLoop(rels, obs_list, i + 1,
            IF PyIndex(obs_list, i).state.observed
            THEN ItemsLoop(rels, obs_list, i, 1, acc)
            ELSE acc)

\* _step2I, line 185: the traces, from trace t on.
RECURSIVE TracesLoop(_, _, _, _)
TracesLoop(rels, obs_lists, t, acc) ==
    IF t > Len(obs_lists) THEN acc
    ELSE TracesLoop(rels, obs_lists, t + 1,
                    StepsLoop(rels, obs_lists[t], 0, acc))

\* _step2I: [constraints, counts].
_step2I(obs_lists, rels) ==
    TracesLoop(rels, obs_lists, 1,
               [constraints |-> <<>>, counts |-> EmptyDict])

\* _arms, line 61: the set of learned actions it returns.
_arms == {}

\* Model(fluents, actions)
Model(fs, actions) == [kind |-> "Model", fluents |-> fs, actions |-> actions]

IncompatibleObservationToken == [kind |-> "IncompatibleObservationToken"]

NoResult == [kind |-> "none"]

(***************************************************************************)
(* One invocation ARMS(obs_lists), a step per function entered.            *)
(***************************************************************************)

\* ARMS.__new__, lines 34-38: the type check, then _check_goal.
New ==
    /\ pc = "__new__"
    /\ IF Compatible(obs_type)
       THEN /\ log' = log \o <<"__new__", "_check_goal">>
            /\ pc' = "_get_fluents"
            /\ UNCHANGED result
       ELSE /\ log' = Append(log, "__new__")
            /\ result' = IncompatibleObservationToken
            /\ pc' = "raised"
    /\ UNCHANGED <<obs_type, corpus, layout, fluents, connected_actions,
                   relations, action_constraints, info_constraints,
                   support_counts, varsCore>>

\* ARMS.__new__, line 40
GetFluents ==
    /\ pc = "_get_fluents"
    /\ log' = Append(log, "_get_fluents")
    /\ fluents' = get_fluents(corpus)
    /\ pc' = "_step1"
    /\ UNCHANGED <<obs_type, corpus, layout, connected_actions, relations,
                   action_constraints, info_constraints, support_counts,
                   result, varsCore>>

\* _arms, line 58. get_actions() gives a set: _step1 meets its elements in
\* whatever order the set is iterated.
Step1 ==
    /\ pc = "_step1"
    /\ log' = log \o <<"_arms", "_step1">>
    /\ \E obs_actions \in Perms(get_actions(corpus)) :
          connected_actions' = _step1(obs_actions)
    /\ pc' = "_step2"
    /\ UNCHANGED <<obs_type, corpus, layout, fluents, relations,
                   action_constraints, info_constraints, support_counts,
                   result, varsCore>>

\* _arms, line 59, and _step2, lines 100-111
MapRelations ==
    /\ pc = "_step2"
    /\ log' = Append(log, "_step2")
    /\ relations' = RelationsOf(fluents)
    /\ pc' = "_step2A"
    /\ UNCHANGED <<obs_type, corpus, layout, fluents, connected_actions,
                   action_constraints, info_constraints, support_counts,
                   result, varsCore>>

\* _step2, line 113: set(relations.values()) keeps, of the objects that are
\* equal and hash alike, one.
RelationSet(rels) == {rels[f] : f \in DOMAIN rels}

Step2A ==
    /\ pc = "_step2A"
    /\ log' = Append(log, "_step2A")
    /\ action_constraints' = _step2A(connected_actions, RelationSet(relations))
    /\ pc' = "_step2I"
    /\ UNCHANGED <<obs_type, corpus, layout, fluents, connected_actions,
                   relations, info_constraints, support_counts, result,
                   varsCore>>

\* _step2, line 114
Step2I ==
    /\ pc = "_step2I"
    /\ log' = Append(log, "_step2I")
    /\ LET out == _step2I(corpus, relations) IN
          /\ info_constraints' = out.constraints
          /\ support_counts' = out.counts
    /\ pc' = "return"
    /\ UNCHANGED <<obs_type, corpus, layout, fluents, connected_actions,
                   relations, action_constraints, result, varsCore>>

\* _step2, line 135; _arms, line 61; ARMS.__new__, line 43
Return ==
    /\ pc = "return"
    /\ result' = Model(fluents, _arms)
    /\ pc' = "done"
    /\ UNCHANGED <<obs_type, corpus, layout, log, fluents, connected_actions,
                   relations, action_constraints, info_constraints,
                   support_counts, varsCore>>

InitCore ==
    /\ obj_params \in ParamLists
    /\ precond = <<>>
    /\ effects = <<>>
    /\ call = NoCall
    /\ made = [given |-> None, raised |-> "none", effect |-> None]

IdleCore ==
    /\ obj_params = <<"a">>
    /\ precond = <<>>
    /\ effects = <<>>
    /\ call = NoCall
    /\ made = [given |-> None, raised |-> "none", effect |-> None]

InitArms ==
    /\ pc = "__new__"
    /\ obs_type \in ObservationTypes
    /\ corpus \in Corpora
    \* The layout orders the two type names where they meet in one set; a
    \* corpus with fewer than two types has no such set.
    /\ layout \in IF Cardinality(TypesOfCorpus(corpus)) < 2
                  THEN {"inserted"} ELSE Layouts
    /\ log = <<>>
    /\ fluents = {}
    /\ connected_actions = EmptyDict
    /\ relations = EmptyDict
    /\ action_constraints = EmptyDict
    /\ info_constraints = <<>>
    /\ support_counts = EmptyDict
    /\ result = NoResult

IdleArms ==
    /\ pc = "idle"
    /\ obs_type = PartialObservation
    /\ corpus = <<>>
    /\ layout = "inserted"
    /\ log = <<>>
    /\ fluents = {}
    /\ connected_actions = EmptyDict
    /\ relations = EmptyDict
    /\ action_constraints = EmptyDict
    /\ info_constraints = <<>>
    /\ support_counts = EmptyDict
    /\ result = NoResult

\* The extraction pass.
Init == IdleCore /\ InitArms

Next == New \/ GetFluents \/ Step1 \/ MapRelations \/ Step2A \/ Step2I \/ Return

Spec == Init /\ [][Next]_vars

\* The entity classes of src/core.py.
CoreInit == InitCore /\ IdleArms

AddPrecond == \E objects \in ObjLists : add_precond("p", objects)

AddEffect ==
    \E objects \in ObjLists, probability \in ProbInputs :
        add_effect("e", objects, "f", probability)

Construct ==
    \E probability \in ProbInputs : NewEffect("e", <<"a">>, "f", probability)

CoreNext == AddPrecond \/ AddEffect \/ Construct

CoreSpec == CoreInit /\ [][CoreNext]_vars

(***************************************************************************)
(* Properties.                                                             *)
(***************************************************************************)

HoldingTrue(obs) ==
    \E k \in DOMAIN obs.state.items : obs.state.items[k] = <<Holding, TRUE>>

\* The corpus of C1: two traces, two actions, every pick-up followed at once
\* by a step that observes holding true, and holding observed true only
\* after a pick-up.
PickUpScenario(c) ==
    /\ Len(c) = 2
    /\ get_actions(c) = {PickUp, PutDown}
    /\ \A t \in DOMAIN c : \A i \in DOMAIN c[t] :
          /\ c[t][i].action = PickUp =>
                i < Len(c[t]) /\ HoldingTrue(c[t][i + 1])
          /\ HoldingTrue(c[t][i]) =>
                \E q \in 1..(i - 1) : c[t][q].action = PickUp

\* C1: for the pick-up corpus, the Model that ARMS returns has a learned
\* pick-up action with holding in its add list and not in its delete list.
C1_PickUpAddsHolding ==
    (pc = "done" /\ PickUpScenario(corpus)) =>
        \E la \in result.actions :
            /\ la.name = "pick-up"
            /\ \E r \in la.add : r.name = "holding"
            /\ ~ \E r \in la.delete : r.name = "holding"

AfterStep2A == pc \in {"_step2I", "return", "done"}

Occurrences(c) ==
    IF c \in DOMAIN action_constraints THEN action_constraints[c] ELSE 0

QualifyingPairs ==
    {p \in (DOMAIN connected_actions) \X RelationSet(relations) :
        p[2].types \subseteq p[1].obj_params}

RECURSIVE SumOver(_, _)
SumOver(f, S) ==
    IF S = {} THEN 0
    ELSE LET x == CHOOSE y \in S : TRUE IN f[x] + SumOver(f, S \ {x})

\* C2: _step2A emits A1a, A1b and A2 for an (action, relation) pair exactly
\* once each when the relation's types are a subset of the action's
\* parameter types, never otherwise, and emits nothing else.
C2_Step2AOncePerQualifyingPair ==
    AfterStep2A =>
        /\ \A a \in DOMAIN connected_actions :
              \A r \in RelationSet(relations) : \A k \in 1..3 :
                 Occurrences(PairConstraints(r, a)[k]) =
                    IF r.types \subseteq a.obj_params THEN 1 ELSE 0
        /\ SumOver(action_constraints, DOMAIN action_constraints) =
              3 * Cardinality(QualifyingPairs)

\* C2's case: _step2A has run on a pair that qualifies and on one that does
\* not.
C2_Witness ==
    /\ AfterStep2A
    /\ QualifyingPairs # {}
    /\ QualifyingPairs # (DOMAIN connected_actions) \X RelationSet(relations)

\* A truth assignment satisfies an implication.
Satisfies(asg, c) ==
    \E j \in DOMAIN c.args : asg[c.args[j].name] = c.args[j].true

PairVars(r, a) ==
    {VarName(r, "_in_add_", details(a)), VarName(r, "_in_pre_", details(a))}
    \cup UNION {{PairConstraints(r, a)[k].args[j].name : j \in 1..2} :
                   k \in 1..3}

\* C3: no truth assignment that satisfies the action constraints emitted
\* for a pair makes both its in_add and its in_pre indicator true.
C3_AddExcludesPre ==
    AfterStep2A =>
        \A p \in QualifyingPairs :
            \A asg \in [PairVars(p[2], p[1]) -> BOOLEAN] :
                (\A k \in 1..3 :
                    Occurrences(PairConstraints(p[2], p[1])[k]) > 0 =>
                        Satisfies(asg, PairConstraints(p[2], p[1])[k]))
                => ~ (/\ asg[VarName(p[2], "_in_add_", details(p[1]))]
                      /\ asg[VarName(p[2], "_in_pre_", details(p[1]))])

\* C4: no information constraint has an empty I1 disjunction.
C4_NoEmptyDisjunction ==
    \A k \in DOMAIN info_constraints :
        info_constraints[k].args[1].args # <<>>

\* C5: the map of _step1 is symmetric: a2 under a1 with set S means a1 under
\* a2 with the same S.
C5_ConnectivitySymmetric ==
    \A a1 \in DOMAIN connected_actions :
        \A a2 \in DOMAIN connected_actions[a1] :
            /\ a2 \in DOMAIN connected_actions
            /\ a1 \in DOMAIN connected_actions[a2]
            /\ connected_actions[a2][a1] = connected_actions[a1][a2]

\* C6: Relations with the same name and equal type sets are equal and hash
\* alike, so the set handed to _step2A holds one Relation per name and type
\* set.
C6_EqualRelationsHashAlike ==
    /\ \A f1 \in DOMAIN relations : \A f2 \in DOMAIN relations :
          (/\ relations[f1].name = relations[f2].name
           /\ relations[f1].types = relations[f2].types)
          => /\ RelationEq(relations[f1], relations[f2])
             /\ RelationHash(relations[f1]) = RelationHash(relations[f2])
    /\ Cardinality(RelationSet(relations)) =
          Cardinality({<<relations[f].name, relations[f].types>> :
                          f \in DOMAIN relations})

Inside(objects) == \A i \in DOMAIN objects : objects[i] \in Range(obj_params)

\* C7: every object that a precondition or an effect of the Action refers to
\* is one of its obj_params, and a call naming an object outside obj_params
\* raises and leaves precond and effects as they were.
C7_AttachedObjectsAreParameters ==
    /\ [](/\ \A i \in DOMAIN precond : Inside(precond[i].objects)
          /\ \A i \in DOMAIN effects : Inside(effects[i].objects))
    /\ [][(call'.op # "none" /\ ~ Inside(call'.objects))
             => /\ call'.raised = "Exception"
                /\ precond' = precond
                /\ effects' = effects]_vars

\* C7's case: a call has raised on an Action that holds a precondition and
\* an effect.
C7_Witness ==
    /\ call.raised = "Exception"
    /\ ~ Inside(call.objects)
    /\ precond # <<>>
    /\ effects # <<>>

Clamp(n) == IF n < 0 THEN 0 ELSE IF n > 100 THEN 100 ELSE n

\* C8: an integer probability p, given to Effect(...) or to add_effect,
\* leaves the Effect with probability max(0, min(100, p)).
C8_IntegerProbabilityClamped ==
    /\ (made.given.kind = "int" /\ made.raised = "none")
          => made.effect.probability = IntV(Clamp(made.given.n))
    /\ (call.op = "add_effect" /\ call.raised = "none"
           /\ call.probability.kind = "int")
          => effects[Len(effects)].probability =
                IntV(Clamp(call.probability.n))

\* C9: an Effect is only ever constructed from an integer probability;
\* any other value raises.
C9_NonIntegerRaises ==
    /\ (made.given.kind # "int" /\ made.given.kind # "none")
          => made.raised # "none"
    /\ made.raised = "none" /\ made.given.kind # "none"
          => made.effect.probability.kind = "int"

\* C10: with an observation type other than the partial one, ARMS raises
\* IncompatibleObservationToken before any other function is entered, and
\* gives back no Model.
C10_IncompatibleTypeFailsFast ==
    obs_type # PartialObservation =>
        /\ Range(log) \subseteq {"__new__"}
        /\ result.kind # "Model"
        /\ pc # "__new__" =>
              pc = "raised" /\ result = IncompatibleObservationToken

\* C10's case: ARMS has been called with the wrong type and has raised.
C10_Witness ==
    /\ obs_type # PartialObservation
    /\ log = <<"__new__">>
    /\ result = IncompatibleObservationToken
    /\ corpus # <<>>

AfterStep2I == pc \in {"return", "done"}

\* The observations of a fluent as true: <<trace, step, item>>, positions
\* counted from 1.
TrueObservations ==
    {o \in UNION {UNION {{<<t, p, k>> : k \in DOMAIN corpus[t][p].state.items} :
                            p \in DOMAIN corpus[t]} : t \in DOMAIN corpus} :
        corpus[o[1]][o[2]].state.items[o[3]][2]}

Before(o1, o2) ==
    \/ o1[1] < o2[1]
    \/ o1[1] = o2[1] /\ o1[2] < o2[2]
    \/ o1[1] = o2[1] /\ o1[2] = o2[2] /\ o1[3] < o2[3]

\* The place of an observation among the true observations, in the order
\* of the corpus.
Place(o) == Cardinality({o2 \in TrueObservations : Before(o2, o)}) + 1

RelationObserved(o) == relations[corpus[o[1]][o[2]].state.items[o[3]][1]]

\* C11: every observation of a fluent as true gives exactly one constraint,
\* And(I1, I2): I1 a disjunction with one in-add variable for the action of
\* each earlier step of the trace, I2 the not-in-delete variable for the
\* action of the step just before, a step of the trace that precedes the
\* observation; nothing else gives a constraint.
C11_OneConstraintPerTrueObservation ==
    AfterStep2I =>
        /\ Len(info_constraints) = Cardinality(TrueObservations)
        /\ \A o \in TrueObservations :
              LET trace == corpus[o[1]]
                  c == info_constraints[Place(o)]
              IN /\ c.op = "and" /\ Len(c.args) = 2
                 /\ c.args[1] =
                       Or([q \in 1..(o[2] - 1) |->
                             Var(VarName(RelationObserved(o), "_in_add_",
                                         ActionDetails(trace[q].action)))])
                 /\ \E q \in 1..(o[2] - 1) :
                       /\ q = o[2] - 1
                       /\ c.args[2] =
                             Var(VarName(RelationObserved(o), "_notin_del_",
                                         ActionDetails(trace[q].action)))

\* The count that C12 says an observation increments: none where the
\* observation is at the last step and no step precedes it.
ClaimedKeys(o) ==
    LET trace == corpus[o[1]] IN
    IF o[2] < Len(trace)
    THEN {<<RelationObserved(o), trace[o[2]].action, "pre">>}
    ELSE {<<RelationObserved(o), trace[q].action, "add">> :
             q \in {o[2] - 1} \cap DOMAIN trace}

AllClaimedKeys == UNION {ClaimedKeys(o) : o \in TrueObservations}

\* C12: every observation of a fluent as true adds 1 to one count: that of
\* (relation, action of the step, "pre") unless the step is the last of its
\* trace, and then that of (relation, action of the step before, "add"); so
\* the counts add up to the number of information constraints.
C12_SupportCountsPerObservation ==
    AfterStep2I =>
        /\ DOMAIN support_counts = AllClaimedKeys
        /\ \A key \in DOMAIN support_counts :
              support_counts[key] =
                 Cardinality({o \in TrueObservations : key \in ClaimedKeys(o)})
        /\ SumOver(support_counts, DOMAIN support_counts) =
              Len(info_constraints)

====
